---- MODULE Spec2Model ----
(***************************************************************************)
(* Model of the ATS market-coverage study:                                 *)
(*   - analysis/coverage-simulation.py : the Monte Carlo simulation driver *)
(*   - analysis/visualizations/charts.py : the chart generator             *)
(*                                                                         *)
(* Floats are held as fixed-point integers.  A percentage or a dollar      *)
(* amount x is held as the integer Round(x * FP); every float division     *)
(* rounds to the nearest representable value (RoundDiv), as IEEE division  *)
(* does at its own resolution.  Raw Pareto samples are held in units of    *)
(* 1/RawUnit.                                                              *)
(***************************************************************************)
EXTENDS Integers, Sequences, FiniteSets, TLC

---------------------------------------------------------------------------
(* Module-level configuration of coverage-simulation.py, lines 26-41 *)

SEED == 42
N_SYSTEMS == 34
HOURLY_RATE == 85
HOURS_PER_SYSTEM == 16
INFRASTRUCTURE_COST == 500
MAINTENANCE_HOURS_PER_SYSTEM == 2
BASE_MONTHLY_REVENUE == 400000
REVENUE_PER_COVERAGE_POINT == 8000
\* the months=12 horizon the Monte Carlo loop passes to calculate_roi
SIM_MONTHS == 12
\* the placeholder optimal_n = 5 every trial starts with
PLACEHOLDER_N == 5

\* resolution of the fixed-point stand-in for float64: 1/FP
FP == 100
\* resolution of a raw Pareto sample: 1/RawUnit
RawUnit == 10
\* PARETO_XMIN = 0.5, in raw units
PARETO_XMIN == RawUnit \div 2

(* Bounds of the model *)
\* n_simulations ranges over 0..MaxTrials (the program passes 10000)
MaxTrials == 2
\* besides SEED, the generator is seeded with 0..MaxSeed
MaxSeed == 2

---------------------------------------------------------------------------
(* Arithmetic helpers *)

Abs(x) == IF x < 0 THEN -x ELSE x

\* a / b rounded to the nearest integer (b # 0), ties upward
RoundDiv(a, b) ==
    LET aa == IF b < 0 THEN -a ELSE a
        bb == IF b < 0 THEN -b ELSE b
    IN  (aa \div bb) + (IF 2 * (aa % bb) >= bb THEN 1 ELSE 0)

RECURSIVE SeqSum(_)
SeqSum(s) == IF s = <<>> THEN 0 ELSE s[1] + SeqSum(Tail(s))

RECURSIVE IsqrtBetween(_, _, _)
\* the largest r in lo..hi with r*r <= x (lo*lo <= x < (hi+1)*(hi+1))
IsqrtBetween(x, lo, hi) ==
    IF lo >= hi THEN lo
    ELSE LET mid == (lo + hi + 1) \div 2
         IN  IF mid * mid <= x THEN IsqrtBetween(x, mid, hi)
             ELSE IsqrtBetween(x, lo, mid - 1)

\* np.sqrt on a non-negative value, rounded down to the resolution
Isqrt(x) == IsqrtBetween(x, 0, 46340)

---------------------------------------------------------------------------
(* The global numpy generator: np.random.seed / np.random.pareto.          *)
(* The generator is a deterministic state machine; a 16-bit linear         *)
(* congruential generator stands in for the Mersenne Twister.              *)

RngModulus == 65536

\* a generator left unseeded: initialised from the entropy of the process
UnseededState(sd, entropy) == entropy % RngModulus

\* line 27, np.random.seed: the generator's state at process start depends
\* on the seed alone
SeededState(sd, entropy) == sd % RngModulus

NextRng(s) == (s * 25173 + 27053) % RngModulus

RECURSIVE RngAfter(_, _)
\* the generator's state after k draws
RngAfter(s, k) == IF k = 0 THEN s ELSE NextRng(RngAfter(s, k - 1))

\* inverse CDF of the Lomax(alpha = 0.8) distribution np.random.pareto
\* samples, at the 17 knots u = 0, 1/16, .., 15/16 and a truncated top knot,
\* in raw units: RawUnit * ((1 - u)^(-1/0.8) - 1)
ParetoQuantile ==
    <<0, 1, 2, 3, 4, 6, 8, 11, 14, 18, 24, 33, 47, 71, 125, 310, 2000>>

\* one sample (>= 0) from generator state s: the inverse CDF, linear between
\* the knots
ParetoSample(s) ==
    LET w == RngModulus \div 16
        j == s \div w
        f == s % w
    IN  ParetoQuantile[j + 1]
          + ((ParetoQuantile[j + 2] - ParetoQuantile[j + 1]) * f) \div w

\* np.random.pareto(alpha, n) drawn from generator state s
ParetoDraw(s, n) == [k \in 1..n |-> ParetoSample(RngAfter(s, k))]

---------------------------------------------------------------------------
(* MarketSimulation *)

\* line 57: raw_shares = np.random.pareto(alpha, n_systems) + PARETO_XMIN
RawShares(s) ==
    LET draw == ParetoDraw(s, N_SYSTEMS)
    IN  [k \in 1..N_SYSTEMS |-> draw[k] + PARETO_XMIN]

RECURSIVE SeqMax(_)
SeqMax(s) == IF Len(s) = 1 THEN s[1]
             ELSE LET m == SeqMax(Tail(s)) IN IF s[1] > m THEN s[1] ELSE m

\* a normalisation by the largest share instead of the sum
NormalizeByMax(raw) ==
    [k \in 1..Len(raw) |-> RoundDiv(raw[k] * 100 * FP, SeqMax(raw))]

\* line 60: (raw_shares / raw_shares.sum()) * 100.  The quotient is rounded
\* at resolution 1/(100*FP); times 100 it is the same integer at 1/FP.
Normalize(raw) ==
    [k \in 1..Len(raw) |-> RoundDiv(raw[k] * 100 * FP, SeqSum(raw))]

RECURSIVE Insert(_, _)
\* x inserted into the ascending sequence s
Insert(x, s) ==
    IF s = <<>> THEN <<x>>
    ELSE IF x <= s[1] THEN <<x>> \o s
    ELSE <<s[1]>> \o Insert(x, Tail(s))

RECURSIVE SortAsc(_)
\* np.sort
SortAsc(s) == IF s = <<>> THEN <<>> ELSE Insert(s[1], SortAsc(Tail(s)))

\* [::-1]
Reverse(s) == [k \in 1..Len(s) |-> s[Len(s) + 1 - k]]

\* a sort that forgets the reversal
SortAscending(s) == SortAsc(s)

\* line 63: np.sort(market_shares)[::-1]
SortDescending(s) == Reverse(SortAsc(s))

\* a coverage curve that is the shares themselves, as marginal_gain returns
SharesThemselves(shares) == shares

\* cumulative_coverage, lines 67-69: np.cumsum
CumulativeCoverage(shares) ==
    [k \in 1..Len(shares) |-> SeqSum(SubSeq(shares, 1, k))]

---------------------------------------------------------------------------
(* ROICalculator *)

\* a cost model that charges the setup hours monthly and the maintenance
\* hours once
CalculateCostsSwapped(n_systems) ==
    << n_systems * MAINTENANCE_HOURS_PER_SYSTEM * HOURLY_RATE,
       INFRASTRUCTURE_COST
         + (n_systems * HOURS_PER_SYSTEM * HOURLY_RATE) >>

\* calculate_costs, lines 80-87: <<one_time, monthly>>, integer dollars
CalculateCosts(n_systems) ==
    << n_systems * HOURS_PER_SYSTEM * HOURLY_RATE,
       INFRASTRUCTURE_COST
         + (n_systems * MAINTENANCE_HOURS_PER_SYSTEM * HOURLY_RATE) >>

\* a revenue that forgets the baseline
CalculateRevenueNoBase(coverage) == coverage * REVENUE_PER_COVERAGE_POINT

\* calculate_revenue, lines 90-92; coverage and the result in units of 1/FP
CalculateRevenue(coverage) ==
    (BASE_MONTHLY_REVENUE * FP) + (coverage * REVENUE_PER_COVERAGE_POINT)

\* line 101
TotalCost(n_systems, months) ==
    CalculateCosts(n_systems)[1] + (CalculateCosts(n_systems)[2] * months)

\* calculate_roi, lines 95-107.  coverage in units of 1/FP; is_numpy says
\* whether coverage is a numpy float64 (as in the Monte Carlo loop) or a
\* Python float.  The result is a record: kind "value" with the ROI in
\* units of 1/FP percent, or what the division by a zero total cost gives:
\* Python raises ZeroDivisionError, numpy returns inf, -inf or nan.
CalculateRoi(n_systems, coverage, months, is_numpy) ==
    LET total_cost == TotalCost(n_systems, months)
        monthly_revenue == CalculateRevenue(coverage)
        total_revenue == monthly_revenue * months
        numerator == total_revenue - (total_cost * FP)
    IN  IF total_cost # 0
        THEN [kind |-> "value", value |-> RoundDiv(numerator, total_cost) * 100]
        ELSE IF ~is_numpy THEN [kind |-> "ZeroDivisionError", value |-> 0]
        ELSE IF numerator > 0 THEN [kind |-> "inf", value |-> 0]
        ELSE IF numerator < 0 THEN [kind |-> "-inf", value |-> 0]
        ELSE [kind |-> "nan", value |-> 0]

---------------------------------------------------------------------------
(* Aggregation, lines 156-164 *)

Column(matrix, c) == [r \in 1..Len(matrix) |-> matrix[r][c]]

\* np.mean of a non-empty column
Mean(xs) == RoundDiv(SeqSum(xs), Len(xs))

\* np.std of a non-empty column: sqrt(mean(|x - mean|^2)).  The deviations
\* are scaled before squaring, as a float's exponent does, so that the
\* squares stay in range.
Std(xs) ==
    LET m == Mean(xs)
        d == [r \in 1..Len(xs) |-> Abs(xs[r] - m)]
        scale == 1 + (SeqMax(d) \div 10000)
        sq == [r \in 1..Len(xs) |-> RoundDiv(d[r], scale) * RoundDiv(d[r], scale)]
    IN  Isqrt(RoundDiv(SeqSum(sq), Len(xs))) * scale

\* the per-system-count aggregate of a trials x N_SYSTEMS matrix; over zero
\* trials numpy yields nan for every entry (empty |-> TRUE in the result)
MeanByCount(matrix) ==
    [c \in 1..N_SYSTEMS |-> IF matrix = <<>> THEN 0 ELSE Mean(Column(matrix, c))]
StdByCount(matrix) ==
    [c \in 1..N_SYSTEMS |-> IF matrix = <<>> THEN 0 ELSE Std(Column(matrix, c))]

NoResults ==
    [empty |-> TRUE, mean_coverage |-> <<>>, mean_roi |-> <<>>,
     std_coverage |-> <<>>, std_roi |-> <<>>]

---------------------------------------------------------------------------
(* State *)

VARIABLES
    \* coverage-simulation.py: main and run_monte_carlo_simulation
    pc,                      \* the statement the driver executes next
    seed,                    \* the argument of np.random.seed
    rng,                     \* state of the global numpy generator
    n_simulations,
    i,                       \* number of the trial, 0-based
    n,                       \* system count of the inner loop
    raw_shares,
    market_shares,
    cumulative,
    best_roi,
    optimal_n,
    coverage_at_systems,
    roi_at_systems,
    optimal_stopping_points,
    results,                 \* the dictionary run_monte_carlo_simulation returns
    error,                   \* the exception that ended the driver, or "none"
    \* counters of what the loop has done
    cell_writes,             \* per cell [i, n-1], the stores of lines 144-145
    roi_evals,               \* calls of calculate_roi at line 142
    \* a second execution of the driver, to compare two runs
    run,
    first_results,
    \* the file system both scripts see
    data_file,               \* data/ats-systems.json
    \* coverage-simulation.py: create_visualizations
    out_dir,                 \* whether visualizations/ exists
    real_systems,
    real_coverage,
    load_state,              \* how load_real_market_data ended
    overlay,                 \* whether the real-data overlay was plotted
    saved,                   \* the image files written, in order
    \* one call of ROICalculator.calculate_roi
    roi_call,
    \* charts.py: main
    ch_pc,
    ch_k,                    \* number of the chart being generated, 1..6
    ch_dir,
    ch_loads,                \* calls of load_data so far
    ch_saved,
    ch_error

simVars == <<pc, seed, rng, n_simulations, i, n, raw_shares, market_shares,
             cumulative, best_roi, optimal_n, coverage_at_systems,
             roi_at_systems, optimal_stopping_points, results, error>>
countVars == <<cell_writes, roi_evals>>
reproVars == <<run, first_results>>
vizVars == <<out_dir, real_systems, real_coverage, load_state, overlay, saved>>
roiVars == <<roi_call>>
chartVars == <<ch_pc, ch_k, ch_dir, ch_loads, ch_saved, ch_error>>
vars == <<simVars, countVars, reproVars, data_file, vizVars, roiVars,
          chartVars>>

---------------------------------------------------------------------------
(* The input file data/ats-systems.json *)

\* what the file can be: absent, not JSON, JSON lacking a tier, JSON with
\* an entry lacking marketShare, or a document with both tiers (marketShare
\* values in units of 1/FP percent)
DataFiles ==
    { [kind |-> "missing", tier1 |-> <<>>, tier2 |-> <<>>],
      [kind |-> "malformed", tier1 |-> <<>>, tier2 |-> <<>>],
      [kind |-> "no_tier1", tier1 |-> <<>>, tier2 |-> <<450, 300>>],
      [kind |-> "no_tier2", tier1 |-> <<1520, 1210>>, tier2 |-> <<>>],
      [kind |-> "no_share", tier1 |-> <<1520>>, tier2 |-> <<450>>],
      [kind |-> "ok", tier1 |-> <<>>, tier2 |-> <<>>],
      [kind |-> "ok", tier1 |-> <<1520>>, tier2 |-> <<>>],
      [kind |-> "ok", tier1 |-> <<1520, 1210, 980>>, tier2 |-> <<450, 300>>] }

\* with open(...) / json.load: the exception raised, or "none"
OpenError(file) ==
    IF file.kind = "missing" THEN "FileNotFoundError"
    ELSE IF file.kind = "malformed" THEN "JSONDecodeError"
    ELSE "none"
\* data['tier1'], data['tier2'], system['marketShare']: the exception
\* raised, or "none"
TierError(file) ==
    IF file.kind \in {"no_tier1", "no_tier2", "no_share"} THEN "KeyError"
    ELSE "none"

---------------------------------------------------------------------------
(* The output directory, and exceptions in main *)

\* a mkdir without exist_ok, which refuses a directory that exists
MkdirStrict(exists, fault) ==
    IF exists THEN "FileExistsError"
    ELSE IF fault THEN "OSError"
    ELSE "none"

\* output_dir.mkdir(exist_ok=True), line 198 and charts.py line 411: the
\* exception raised, or "none".  A directory that exists is left as it is;
\* creating one fails when the file system refuses (fault).
MkdirExistOk(exists, fault) ==
    IF exists THEN "none"
    ELSE IF fault THEN "OSError"
    ELSE "none"

\* a handler that swallows the exception and goes on with the next step
Swallowed(next_pc) == next_pc

\* main of coverage-simulation.py (lines 423-448) has no try statement: an
\* exception raised in a step leaves main and ends the process, whatever
\* step would have been next
Uncaught(next_pc) == "crashed"

\* main of charts.py (lines 402-432) has no try statement either
ChartUncaught(next_pc) == "aborted"

---------------------------------------------------------------------------
(* Initial values of the parts a specification does not exercise *)

\* a start value no ROI exceeds
PosInf == [neg_inf |-> FALSE, v |-> 2147483647]

\* line 137: best_roi = -np.inf
NegInf == [neg_inf |-> TRUE, v |-> 0]

Seeds == {SEED} \cup (0..MaxSeed)

SimIdle ==
    /\ pc = "idle" /\ seed = SEED /\ rng = 0 /\ n_simulations = 0
    /\ i = 0 /\ n = 0 /\ raw_shares = <<>> /\ market_shares = <<>>
    /\ cumulative = <<>> /\ best_roi = NegInf /\ optimal_n = 0
    /\ coverage_at_systems = <<>> /\ roi_at_systems = <<>>
    /\ optimal_stopping_points = <<>> /\ results = NoResults
    /\ error = "none"
    /\ cell_writes = <<>> /\ roi_evals = 0
ReproIdle == run = 1 /\ first_results = NoResults
VizNotRun ==
    /\ real_systems = <<>> /\ real_coverage = <<>>
    /\ load_state = "not_called" /\ overlay = FALSE /\ saved = <<>>
VizIdle == out_dir = FALSE /\ VizNotRun
RoiIdle ==
    roi_call = [state |-> "idle", n_systems |-> 0, coverage |-> 0, months |-> 0,
                is_numpy |-> FALSE, revenue |-> 0, costs |-> <<0, 0>>,
                total_cost |-> 0,
                result |-> [kind |-> "none", value |-> 0]]
ChartsIdle ==
    /\ ch_pc = "idle" /\ ch_k = 0 /\ ch_dir = FALSE /\ ch_loads = 0
    /\ ch_saved = <<>> /\ ch_error = "none"

---------------------------------------------------------------------------
(* coverage-simulation.py: run_monte_carlo_simulation, lines 110-164 *)

\* line 27 runs at import, then main (lines 423-438) calls
\* run_monte_carlo_simulation, which allocates its storage (lines 119-124)
SimStart(sd, k, entropy) ==
    /\ seed = sd
    /\ rng = SeededState(sd, entropy)
    /\ n_simulations = k
    /\ coverage_at_systems = [r \in 1..k |-> [c \in 1..N_SYSTEMS |-> 0]]
    /\ roi_at_systems = [r \in 1..k |-> [c \in 1..N_SYSTEMS |-> 0]]
    /\ cell_writes = [r \in 1..k |-> [c \in 1..N_SYSTEMS |-> 0]]
    /\ roi_evals = 0
    /\ optimal_stopping_points = <<>>
    /\ i = 0 /\ n = 0
    /\ raw_shares = <<>> /\ market_shares = <<>> /\ cumulative = <<>>
    /\ best_roi = NegInf /\ optimal_n = 0
    /\ results = NoResults
    /\ error = "none"
    /\ pc = "for_i"

\* a loop that leaves out the last trial
RangeOverEarly(j, k) == j >= k - 1

\* line 128, for i in range(n_simulations): whether the range is exhausted
\* once j trials have been processed
RangeOver(j, k) == j >= k

\* lines 128, 133 -> 57
GenerateRaw ==
    /\ pc = "for_i" /\ ~RangeOver(i, n_simulations)
    /\ raw_shares' = RawShares(rng)
    /\ rng' = RngAfter(rng, N_SYSTEMS)
    /\ pc' = "normalize"
    /\ UNCHANGED <<seed, n_simulations, i, n, market_shares, cumulative,
                   best_roi, optimal_n, coverage_at_systems, roi_at_systems,
                   optimal_stopping_points, results, error>>
    /\ UNCHANGED <<countVars, reproVars, data_file, vizVars, roiVars,
                   chartVars>>

\* line 60
NormalizeShares ==
    /\ pc = "normalize"
    /\ market_shares' = Normalize(raw_shares)
    /\ pc' = "sort"
    /\ UNCHANGED <<seed, rng, n_simulations, i, n, raw_shares, cumulative,
                   best_roi, optimal_n, coverage_at_systems, roi_at_systems,
                   optimal_stopping_points, results, error>>
    /\ UNCHANGED <<countVars, reproVars, data_file, vizVars, roiVars,
                   chartVars>>

\* lines 63-65
SortShares ==
    /\ pc = "sort"
    /\ market_shares' = SortDescending(market_shares)
    /\ pc' = "cumsum"
    /\ UNCHANGED <<seed, rng, n_simulations, i, n, raw_shares, cumulative,
                   best_roi, optimal_n, coverage_at_systems, roi_at_systems,
                   optimal_stopping_points, results, error>>
    /\ UNCHANGED <<countVars, reproVars, data_file, vizVars, roiVars,
                   chartVars>>

\* lines 134-140: the coverage curve, then best_roi = -inf, optimal_n = 5
StartScan ==
    /\ pc = "cumsum"
    /\ cumulative' = CumulativeCoverage(market_shares)
    /\ best_roi' = NegInf
    /\ optimal_n' = PLACEHOLDER_N
    /\ n' = 1
    /\ pc' = "for_n"
    /\ UNCHANGED <<seed, rng, n_simulations, i, raw_shares, market_shares,
                   coverage_at_systems, roi_at_systems,
                   optimal_stopping_points, results, error>>
    /\ UNCHANGED <<countVars, reproVars, data_file, vizVars, roiVars,
                   chartVars>>

\* a comparison that lets a later equal ROI replace the best
RoiAtLeast(roi, best) == best.neg_inf \/ roi >= best.v

\* line 148: roi > best_roi
RoiBetter(roi, best) == best.neg_inf \/ roi > best.v

\* a tracker that keeps the array index n - 1 instead of the count
TrackedIndex(count) == count - 1

\* line 150: optimal_n = n
TrackedCount(count) == count

\* an index that sends every trial to the first row
FirstRow(trial) == 1

\* lines 144-145: trial i owns row i of the arrays (rows count from 1 here)
TrialRow(trial) == trial + 1

\* lines 140-150: one iteration of the scan over n = 1..N_SYSTEMS
RoiStep ==
    /\ pc = "for_n" /\ n <= N_SYSTEMS
    /\ LET coverage == cumulative[n]
           roi == CalculateRoi(n, coverage, SIM_MONTHS, TRUE).value
       IN  /\ coverage_at_systems' =
                 [coverage_at_systems EXCEPT ![TrialRow(i)][n] = coverage]
           /\ roi_at_systems' =
                 [roi_at_systems EXCEPT ![TrialRow(i)][n] = roi]
           /\ cell_writes' = [cell_writes EXCEPT ![TrialRow(i)][n] = @ + 1]
           /\ roi_evals' = roi_evals + 1
           /\ IF RoiBetter(roi, best_roi)
              THEN /\ best_roi' = [neg_inf |-> FALSE, v |-> roi]
                   /\ optimal_n' = TrackedCount(n)
              ELSE UNCHANGED <<best_roi, optimal_n>>
    /\ n' = n + 1
    /\ UNCHANGED <<pc, seed, rng, n_simulations, i, raw_shares, market_shares,
                   cumulative, optimal_stopping_points, results, error>>
    /\ UNCHANGED <<reproVars, data_file, vizVars, roiVars, chartVars>>

\* line 152, then the next trial
AppendOptimal ==
    /\ pc = "for_n" /\ n > N_SYSTEMS
    /\ optimal_stopping_points' = Append(optimal_stopping_points, optimal_n)
    /\ i' = i + 1
    /\ pc' = "for_i"
    /\ UNCHANGED <<seed, rng, n_simulations, n, raw_shares, market_shares,
                   cumulative, best_roi, optimal_n, coverage_at_systems,
                   roi_at_systems, results, error>>
    /\ UNCHANGED <<countVars, reproVars, data_file, vizVars, roiVars,
                   chartVars>>

\* lines 154-164: the loop is over, the aggregates are computed and returned
ReturnResults ==
    /\ pc = "for_i" /\ RangeOver(i, n_simulations)
    /\ results' = [empty |-> (n_simulations = 0),
                   mean_coverage |-> MeanByCount(coverage_at_systems),
                   mean_roi |-> MeanByCount(roi_at_systems),
                   std_coverage |-> StdByCount(coverage_at_systems),
                   std_roi |-> StdByCount(roi_at_systems)]
    /\ pc' = "report"
    /\ UNCHANGED <<seed, rng, n_simulations, i, n, raw_shares, market_shares,
                   cumulative, best_roi, optimal_n, coverage_at_systems,
                   roi_at_systems, optimal_stopping_points, error>>
    /\ UNCHANGED <<countVars, reproVars, data_file, vizVars, roiVars,
                   chartVars>>

Simulate ==
    \/ GenerateRaw
    \/ NormalizeShares
    \/ SortShares
    \/ StartScan
    \/ RoiStep
    \/ AppendOptimal
    \/ ReturnResults

---------------------------------------------------------------------------
(* coverage-simulation.py: main after the simulation, lines 440-448 *)

\* print_summary_statistics, lines 364-420.  Over zero trials the median of
\* the optimal counts is nan and int(nan) at line 404 raises ValueError.
PrintSummary ==
    /\ pc = "report"
    /\ IF n_simulations = 0
       THEN pc' = Uncaught("viz_mkdir") /\ error' = "ValueError"
       ELSE pc' = "viz_mkdir" /\ error' = error
    /\ UNCHANGED <<seed, rng, n_simulations, i, n, raw_shares, market_shares,
                   cumulative, best_roi, optimal_n, coverage_at_systems,
                   roi_at_systems, optimal_stopping_points, results>>
    /\ UNCHANGED <<countVars, reproVars, data_file, vizVars, roiVars,
                   chartVars>>

SimFrame ==
    UNCHANGED <<seed, rng, n_simulations, i, n, raw_shares, market_shares,
                cumulative, best_roi, optimal_n, coverage_at_systems,
                roi_at_systems, optimal_stopping_points, results,
                cell_writes, roi_evals>>

\* create_visualizations, lines 196-198: output_dir.mkdir(exist_ok=True)
VizMkdir ==
    /\ pc = "viz_mkdir"
    /\ \E fault \in BOOLEAN :
          LET err == MkdirExistOk(out_dir, fault)
          IN  IF err = "none"
              THEN out_dir' = TRUE /\ pc' = "viz_load" /\ error' = error
              ELSE out_dir' = out_dir /\ pc' = Uncaught("viz_load")
                   /\ error' = err
    /\ SimFrame
    /\ UNCHANGED <<real_systems, real_coverage, load_state, overlay, saved>>
    /\ UNCHANGED <<reproVars, data_file, roiVars, chartVars>>

\* load_real_market_data, lines 167-190, called at line 203: every exception
\* of the try block ends in the warning and the empty lists
LoadRealMarketData ==
    /\ pc = "viz_load"
    /\ IF OpenError(data_file) # "none" \/ TierError(data_file) # "none"
       THEN /\ load_state' = "warned"
            /\ real_systems' = <<>>
            /\ real_coverage' = <<>>
       ELSE LET shares == data_file.tier1 \o data_file.tier2
            IN  /\ load_state' = "loaded"
                /\ real_coverage' = CumulativeCoverage(shares)
                /\ real_systems' = [k \in 1..Len(shares) |-> k]
    /\ pc' = "viz_save"
    /\ SimFrame
    /\ UNCHANGED <<error, out_dir, overlay, saved>>
    /\ UNCHANGED <<reproVars, data_file, roiVars, chartVars>>

\* the files of lines 249, 290, 315, 358, in order
VizFiles ==
    <<"coverage_vs_systems.png", "roi_vs_systems.png", "marginal_gain.png",
      "optimal_distribution.png">>

\* one figure of create_visualizations (lines 205-359): plotted, then
\* written with plt.savefig, which raises OSError when the write fails.
\* Figure 1 plots the real-data overlay if real_systems is non-empty
\* (line 219).
VizSaveFig ==
    /\ pc = "viz_save"
    /\ LET k == Len(saved) + 1
       IN  /\ overlay' = (IF k = 1 THEN real_systems # <<>> ELSE overlay)
           /\ \E ok \in BOOLEAN :
                 IF ok
                 THEN /\ saved' = Append(saved, VizFiles[k])
                      /\ pc' = (IF k = Len(VizFiles) THEN "done" ELSE "viz_save")
                      /\ error' = error
                 ELSE /\ saved' = saved
                      /\ pc' = Uncaught(IF k = Len(VizFiles) THEN "done"
                                        ELSE "viz_save")
                      /\ error' = "OSError"
    /\ SimFrame
    /\ UNCHANGED <<out_dir, real_systems, real_coverage, load_state>>
    /\ UNCHANGED <<reproVars, data_file, roiVars, chartVars>>

\* what distinguishes one process start from another when the generator is
\* not seeded
Entropy(r) == 7919 * r

Init ==
    /\ \E sd \in Seeds, k \in 0..MaxTrials : SimStart(sd, k, Entropy(1))
    /\ ReproIdle
    /\ data_file \in DataFiles
    /\ out_dir \in BOOLEAN /\ VizNotRun
    /\ RoiIdle
    /\ ChartsIdle

Next ==
    \/ Simulate
    \/ PrintSummary
    \/ VizMkdir
    \/ LoadRealMarketData
    \/ VizSaveFig

Spec == Init /\ [][Next]_vars

---------------------------------------------------------------------------
(* Two executions of run_monte_carlo_simulation with the same seed and the *)
(* same trial count, one after the other                                   *)

\* the first execution has returned; the process is started again
Restart ==
    /\ pc = "report" /\ run = 1
    /\ first_results' = results
    /\ run' = 2
    /\ rng' = SeededState(seed, Entropy(2))
    /\ coverage_at_systems' =
          [r \in 1..n_simulations |-> [c \in 1..N_SYSTEMS |-> 0]]
    /\ roi_at_systems' =
          [r \in 1..n_simulations |-> [c \in 1..N_SYSTEMS |-> 0]]
    /\ cell_writes' = [r \in 1..n_simulations |-> [c \in 1..N_SYSTEMS |-> 0]]
    /\ roi_evals' = 0
    /\ optimal_stopping_points' = <<>>
    /\ i' = 0 /\ n' = 0
    /\ raw_shares' = <<>> /\ market_shares' = <<>> /\ cumulative' = <<>>
    /\ best_roi' = NegInf /\ optimal_n' = 0
    /\ results' = NoResults
    /\ pc' = "for_i"
    /\ UNCHANGED <<seed, n_simulations, error>>
    /\ UNCHANGED <<data_file, vizVars, roiVars, chartVars>>

InitRepro ==
    /\ \E sd \in Seeds, k \in 0..MaxTrials : SimStart(sd, k, Entropy(1))
    /\ ReproIdle
    /\ data_file = [kind |-> "missing", tier1 |-> <<>>, tier2 |-> <<>>]
    /\ VizIdle
    /\ RoiIdle
    /\ ChartsIdle

NextRepro == Simulate \/ Restart

SpecRepro == InitRepro /\ [][NextRepro]_vars

---------------------------------------------------------------------------
(* Calls of ROICalculator.calculate_roi on inputs from bounded sets *)

\* n_systems ranges over -MaxRoiSystems..MaxRoiSystems and over the counts
\* 1..N_SYSTEMS of the Monte Carlo loop
MaxRoiSystems == 10
RoiSystems == ((-MaxRoiSystems)..MaxRoiSystems) \cup (1..N_SYSTEMS)
\* coverage 0, 49.5, 79.5 and 100 percent
RoiCoverages == {0, (495 * FP) \div 10, (795 * FP) \div 10, 100 * FP}
RoiMonths == {0, 1, 6, 12, 17}

RoiCall ==
    /\ roi_call.state = "idle"
    /\ \E ns \in RoiSystems, cov \in RoiCoverages, m \in RoiMonths,
          np \in BOOLEAN :
          roi_call' = [state |-> "returned", n_systems |-> ns,
                       coverage |-> cov, months |-> m, is_numpy |-> np,
                       revenue |-> CalculateRevenue(cov),
                       costs |-> CalculateCosts(ns),
                       total_cost |-> TotalCost(ns, m),
                       result |-> CalculateRoi(ns, cov, m, np)]
    /\ UNCHANGED <<simVars, countVars, reproVars, data_file, vizVars,
                   chartVars>>

InitRoi ==
    /\ SimIdle /\ ReproIdle
    /\ data_file = [kind |-> "missing", tier1 |-> <<>>, tier2 |-> <<>>]
    /\ VizIdle /\ RoiIdle /\ ChartsIdle

NextRoi == RoiCall

SpecRoi == InitRoi /\ [][NextRoi]_vars

---------------------------------------------------------------------------
(* charts.py: main, lines 402-432 *)

\* six routines of which the third writes over the file of the first
ChartFilesClash ==
    <<"roi_vs_systems.png", "market_coverage.png", "roi_vs_systems.png",
      "regional_distribution.png", "cost_breakdown.png",
      "sensitivity_heatmap.png">>

\* the files of the six chart routines, in the order of the charts list
ChartFiles ==
    <<"roi_vs_systems.png", "market_coverage.png", "marginal_gain.png",
      "regional_distribution.png", "cost_breakdown.png",
      "sensitivity_heatmap.png">>

\* the charts that call load_data (lines 102, 171, 245), and those that
\* read data['ats']['tier1'] and ['tier2'] (lines 105-106, 179-186)
ChartLoadsData(k) == k \in {2, 3, 4}
ChartReadsTiers(k) == k \in {2, 3}

\* a loader that falls back to an empty document on every failure
ChartDataRecovered(k, file) == "none"

\* load_data, lines 31-41, and the chart's use of the result: the
\* exception raised, or "none".  load_data catches nothing.
ChartDataError(k, file) ==
    IF ~ChartLoadsData(k) THEN "none"
    ELSE IF OpenError(file) # "none" THEN OpenError(file)
    ELSE IF ChartReadsTiers(k) THEN TierError(file)
    ELSE "none"

ChartFrame ==
    UNCHANGED <<simVars, countVars, reproVars, data_file, vizVars, roiVars>>

\* lines 409-411
ChartMkdir ==
    /\ ch_pc = "mkdir"
    /\ \E fault \in BOOLEAN :
          LET err == MkdirExistOk(ch_dir, fault)
          IN  IF err = "none"
              THEN ch_dir' = TRUE /\ ch_pc' = "build" /\ ch_k' = 1
                   /\ ch_error' = ch_error
              ELSE ch_dir' = ch_dir /\ ch_pc' = ChartUncaught("build")
                   /\ ch_k' = ch_k /\ ch_error' = err
    /\ UNCHANGED <<ch_loads, ch_saved>>
    /\ ChartFrame

\* lines 425-427: func(output_dir) up to its plt.savefig
ChartBuild ==
    /\ ch_pc = "build"
    /\ ch_loads' = ch_loads + (IF ChartLoadsData(ch_k) THEN 1 ELSE 0)
    /\ IF ChartDataError(ch_k, data_file) = "none"
       THEN ch_pc' = "save" /\ ch_error' = ch_error
       ELSE ch_pc' = ChartUncaught("save")
            /\ ch_error' = ChartDataError(ch_k, data_file)
    /\ UNCHANGED <<ch_k, ch_dir, ch_saved>>
    /\ ChartFrame

\* plt.savefig of chart ch_k (lines 94, 163, 237, 295, 340, 397), then
\* the next chart or the end of main
ChartSave ==
    /\ ch_pc = "save"
    /\ \E ok \in BOOLEAN :
          IF ok
          THEN /\ ch_saved' = Append(ch_saved, ChartFiles[ch_k])
               /\ ch_pc' = (IF ch_k = Len(ChartFiles) THEN "done" ELSE "build")
               /\ ch_k' = (IF ch_k = Len(ChartFiles) THEN ch_k ELSE ch_k + 1)
               /\ ch_error' = ch_error
          ELSE /\ ch_saved' = ch_saved
               /\ ch_pc' = ChartUncaught(IF ch_k = Len(ChartFiles) THEN "done"
                                         ELSE "build")
               /\ ch_k' = ch_k
               /\ ch_error' = "OSError"
    /\ UNCHANGED <<ch_dir, ch_loads>>
    /\ ChartFrame

InitCharts ==
    /\ SimIdle /\ ReproIdle
    /\ data_file \in DataFiles
    /\ VizIdle /\ RoiIdle
    /\ ch_pc = "mkdir" /\ ch_k = 0 /\ ch_dir \in BOOLEAN /\ ch_loads = 0
    /\ ch_saved = <<>> /\ ch_error = "none"

NextCharts == ChartMkdir \/ ChartBuild \/ ChartSave

SpecCharts == InitCharts /\ [][NextCharts]_vars

---------------------------------------------------------------------------
(* One run of each script over the same data file.  The scripts are separate *)
(* processes with separate output directories (analysis/visualizations and   *)
(* analysis/visualizations/visualizations), so their steps interleave.       *)

InitScripts ==
    /\ \E k \in 0..MaxTrials : SimStart(SEED, k, Entropy(1))
    /\ ReproIdle
    /\ data_file \in DataFiles
    /\ out_dir \in BOOLEAN /\ VizNotRun
    /\ RoiIdle
    /\ ch_pc = "mkdir" /\ ch_k = 0 /\ ch_dir \in BOOLEAN /\ ch_loads = 0
    /\ ch_saved = <<>> /\ ch_error = "none"

NextScripts == Next \/ NextCharts

SpecScripts == InitScripts /\ [][NextScripts]_vars

---------------------------------------------------------------------------
(* Properties *)

\* the trials whose optimal count has been recorded
Recorded == 1..Len(optimal_stopping_points)

IsDescending(s) == \A k \in 1..(Len(s) - 1) : s[k] >= s[k + 1]

CountOf(s, v) == Cardinality({k \in DOMAIN s : s[k] = v})

\* s and t hold the same values, each as often
SameElements(s, t) ==
    /\ Len(s) = Len(t)
    /\ \A k \in DOMAIN s : CountOf(s, s[k]) = CountOf(t, s[k])

\* the rounding of N_SYSTEMS quotients, half a unit each
CoverageTolerance == (N_SYSTEMS + 1) \div 2

Near100(x) == Abs(x - (100 * FP)) <= CoverageTolerance

\* C1: every optimal count appended to optimal_stopping_points, and the
\* count about to be appended when the scan is over, lies in 1..34.
C1_OptimalCountInRange ==
    /\ \A r \in Recorded : optimal_stopping_points[r] \in 1..34
    /\ (pc = "for_n" /\ n > N_SYSTEMS) => optimal_n \in 1..34

C1_Witness ==
    /\ Len(optimal_stopping_points) >= 2
    /\ optimal_stopping_points[1] # optimal_stopping_points[2]

\* C2: the count recorded for a trial attains the maximum of that trial's
\* ROI row, and every smaller count has a strictly smaller ROI: of several
\* counts attaining the maximum, the first is recorded.
C2_FirstMaximumRecorded ==
    \A r \in Recorded :
        LET row == roi_at_systems[r]
            opt == optimal_stopping_points[r]
        IN  /\ opt \in 1..N_SYSTEMS
            /\ \A m \in 1..N_SYSTEMS : row[m] <= row[opt]
            /\ \A m \in 1..N_SYSTEMS : m < opt => row[m] < row[opt]

\* a trial whose maximum ROI is attained at two counts
C2_Witness ==
    \E r \in Recorded :
        \E m \in 1..N_SYSTEMS :
            /\ m > optimal_stopping_points[r]
            /\ roi_at_systems[r][m] = roi_at_systems[r][optimal_stopping_points[r]]

C4_NonPositiveCostFailsFast ==
    (roi_call.state = "returned" /\ roi_call.total_cost <= 0) =>
        roi_call.result.kind = "ZeroDivisionError"

\* C5: a loader given a document without the tier1 key fails with the
\* error of the missing key; it does not return an empty result.
C5_MissingTier1Fails ==
    (data_file.kind = "no_tier1" /\ load_state # "not_called") =>
        /\ error = "KeyError"
        /\ load_state # "warned"

\* C6: a missing or malformed market-data file never ends a run: no run
\* aborts with the error of the failed read.
C6_ReadFailureRecovered ==
    ch_error \notin {"FileNotFoundError", "JSONDecodeError"}

\* the simulation driver's half of C6: after a failed read the lists are
\* empty, the warning was given and the overlay is left out
SimReadFailureRecovered ==
    (load_state # "not_called"
        /\ (OpenError(data_file) # "none" \/ TierError(data_file) # "none")) =>
        /\ load_state = "warned"
        /\ real_systems = <<>> /\ real_coverage = <<>>
        /\ ~overlay
        /\ error \in {"none", "OSError"}

\* C7: the last element of every coverage curve, the current one and those
\* stored for the recorded trials, is 100 within the rounding tolerance.
C7_CoverageEndsAt100 ==
    /\ cumulative # <<>> => Near100(cumulative[N_SYSTEMS])
    /\ \A r \in Recorded : Near100(coverage_at_systems[r][N_SYSTEMS])

\* a recorded curve that ends near, not at, 100
C7_Witness ==
    \E r \in Recorded :
        /\ coverage_at_systems[r][N_SYSTEMS] # 100 * FP
        /\ Near100(coverage_at_systems[r][N_SYSTEMS])

\* C8: every stored coverage curve is non-decreasing in the system count,
\* those of the recorded trials over 1..34 and the one being filled over
\* the counts written so far.
C8_CoverageNonDecreasing ==
    /\ \A r \in Recorded :
          \A c \in 1..(N_SYSTEMS - 1) :
              coverage_at_systems[r][c + 1] >= coverage_at_systems[r][c]
    /\ pc = "for_n" =>
          \A c \in 1..(n - 2) :
              coverage_at_systems[i + 1][c + 1] >= coverage_at_systems[i + 1][c]

C8_Witness ==
    \E r \in Recorded :
        /\ coverage_at_systems[r][1] > 0
        /\ coverage_at_systems[r][1] < coverage_at_systems[r][2]
        /\ coverage_at_systems[r][2] < coverage_at_systems[r][N_SYSTEMS]

\* C9: the step that sorts finds the vector already normalized to a sum of
\* 100, and leaves the vector generate_market_shares returns: the same 34
\* values, none negative, in descending order.
C9_SortedAfterNormalization ==
    [][ (pc = "sort" /\ pc' = "cumsum") =>
            /\ Near100(SeqSum(market_shares))
            /\ Len(market_shares') = 34
            /\ \A k \in 1..Len(market_shares') : market_shares'[k] >= 0
            /\ IsDescending(market_shares')
            /\ SameElements(market_shares, market_shares') ]_vars

\* a returned vector that the sort had to reorder
C9_Witness ==
    /\ pc = "cumsum"
    /\ Len(market_shares) = 34
    /\ IsDescending(market_shares)
    /\ market_shares[1] > market_shares[34]
    /\ ~IsDescending(raw_shares)

\* C10: with a positive total cost, calculate_roi(n, coverage, months) is
\* (revenue*months - cost) / cost * 100 with revenue = 400000 + coverage*8000
\* and cost = n*16*85 + (500 + n*2*85)*months; revenue(49.5) = 796000 and
\* roi(5, 49.5, 12) = (796000*12 - 23000) / 23000 * 100.
C10_RoiFormula ==
    roi_call.state = "returned" =>
        LET ns == roi_call.n_systems
            cov == roi_call.coverage
            m == roi_call.months
            cost == (ns * 16 * 85) + ((500 + (ns * 2 * 85)) * m)
            revenue == (400000 * FP) + (cov * 8000)
        IN  /\ cost > 0 =>
                  roi_call.result =
                      [kind |-> "value",
                       value |-> RoundDiv((revenue * m) - (cost * FP), cost) * 100]
            /\ 10 * cov = 495 * FP => roi_call.revenue = 796000 * FP
            /\ (ns = 5 /\ 10 * cov = 495 * FP /\ m = 12) =>
                  roi_call.result =
                      [kind |-> "value",
                       value |-> RoundDiv(((796000 * 12) - 23000) * FP, 23000) * 100]

C10_Witness ==
    /\ roi_call.state = "returned"
    /\ roi_call.n_systems = 5 /\ 10 * roi_call.coverage = 495 * FP
    /\ roi_call.months = 12
    /\ roi_call.total_cost = 23000
    /\ roi_call.result.kind = "value"
    /\ roi_call.result.value \div FP = 41430

\* C11: calculate_costs(n) returns one_time = n*16*85 and
\* monthly = 500 + n*2*85 for every system count n; calculate_costs(5) is
\* (6800, 1350); and for n in 1..34 the 12-month total cost
\* one_time + 12*monthly is strictly positive.
C11_CostFormula ==
    roi_call.state = "returned" =>
        LET ns == roi_call.n_systems
            one_time == roi_call.costs[1]
            monthly == roi_call.costs[2]
        IN  /\ one_time = ns * 16 * 85
            /\ monthly = 500 + (ns * 2 * 85)
            /\ ns = 5 => roi_call.costs = <<6800, 1350>>
            /\ roi_call.total_cost = one_time + (roi_call.months * monthly)
            /\ (ns \in 1..34 /\ roi_call.months = 12) =>
                  /\ one_time + (12 * monthly) > 0
                  /\ roi_call.total_cost > 0

\* the costs of the largest system count over twelve months
C11_Witness ==
    /\ roi_call.state = "returned"
    /\ roi_call.n_systems = 34 /\ roi_call.months = 12
    /\ roi_call.costs = <<46240, 6280>>
    /\ roi_call.total_cost = 121600

\* C12: in both scripts every write of an image file is preceded, in the
\* same run, by the mkdir step, after which the output directory exists;
\* the step raises no error when the directory exists already, so a run
\* that ends at it found no directory.
C12_DirectoryEnsuredBeforeWrites ==
    /\ pc \in {"viz_load", "viz_save", "done"} => out_dir
    /\ saved # <<>> => out_dir
    /\ (pc = "crashed" /\ error # "ValueError" /\ load_state = "not_called")
          => (~out_dir /\ error = "OSError" /\ saved = <<>>)
    /\ ch_pc \in {"build", "save", "done"} => ch_dir
    /\ ch_saved # <<>> => ch_dir
    /\ (ch_pc = "aborted" /\ ch_k = 0)
          => (~ch_dir /\ ch_error = "OSError" /\ ch_saved = <<>>)

\* both scripts have written every one of their files
C12_Witness ==
    /\ Len(saved) = Len(VizFiles) /\ out_dir
    /\ Len(ch_saved) = Len(ChartFiles) /\ ch_dir

Names(s) == {s[k] : k \in DOMAIN s}

\* C14: a run of the chart generator that reaches the end of main has
\* written exactly the six files roi_vs_systems.png, market_coverage.png,
\* marginal_gain.png, regional_distribution.png, cost_breakdown.png and
\* sensitivity_heatmap.png, each once; a run of the simulation driver that
\* reaches the end of main has written exactly coverage_vs_systems.png,
\* roi_vs_systems.png, marginal_gain.png and optimal_distribution.png.
C14_FilesOfSuccessfulRun ==
    /\ ch_pc = "done" =>
          /\ ch_error = "none"
          /\ Len(ch_saved) = 6
          /\ Names(ch_saved) =
                {"roi_vs_systems.png", "market_coverage.png",
                 "marginal_gain.png", "regional_distribution.png",
                 "cost_breakdown.png", "sensitivity_heatmap.png"}
          /\ \A f \in Names(ch_saved) : CountOf(ch_saved, f) = 1
    /\ pc = "done" =>
          /\ error = "none"
          /\ Len(saved) = 4
          /\ Names(saved) =
                {"coverage_vs_systems.png", "roi_vs_systems.png",
                 "marginal_gain.png", "optimal_distribution.png"}
          /\ \A f \in Names(saved) : CountOf(saved, f) = 1

\* both scripts have reached the end of main
C14_Witness ==
    /\ ch_pc = "done" /\ ch_saved[6] = "sensitivity_heatmap.png"
    /\ pc = "done" /\ saved[4] = "optimal_distribution.png"

\* the phases of main: 1 the simulation loop, 2 the report, 3 the plots,
\* 4 the exit
PhaseOf(p) ==
    IF p \in {"for_i", "normalize", "sort", "cumsum", "for_n"} THEN 1
    ELSE IF p = "report" THEN 2
    ELSE IF p \in {"viz_mkdir", "viz_load", "viz_save"} THEN 3
    ELSE 4

\* C15: the simulation driver's control flow is linear.  Every step stays
\* in its phase or moves to the next one (or ends the run with an
\* exception), so no phase is entered twice; the report is reached only
\* when all trials of the loop are complete and their aggregates computed;
\* the plots are reached only from the report; the normal exit is reached
\* only from the last plot; and after the exit nothing runs.
C15_LinearControlFlow ==
    [][ /\ \/ PhaseOf(pc') \in {PhaseOf(pc), PhaseOf(pc) + 1}
           \/ pc' = "crashed"
        /\ pc' = "report" =>
              /\ i' = n_simulations'
              /\ Len(optimal_stopping_points') = n_simulations'
              /\ saved' = <<>>
              /\ (pc # "report" => results' # results \/ n_simulations = 0)
        /\ (PhaseOf(pc') = 3 /\ PhaseOf(pc) # 3) => pc = "report"
        /\ pc' = "done" =>
              (PhaseOf(pc) >= 3 /\ Len(saved') = Len(VizFiles))
        /\ PhaseOf(pc) = 4 => UNCHANGED <<simVars, vizVars>>
      ]_vars

\* a run over two trials that went through all phases to the normal exit
C15_Witness ==
    /\ pc = "done" /\ n_simulations = 2 /\ i = 2
    /\ ~results.empty /\ Len(saved) = Len(VizFiles)

Cells == (1..n_simulations) \X (1..N_SYSTEMS)

\* the statements one trial executes: the draw, the normalisation, the
\* sort, the start of the scan, N_SYSTEMS iterations and the append
StepsPerTrial == N_SYSTEMS + 5

\* the statements run_monte_carlo_simulation has yet to execute before it
\* returns
StepsLeft ==
    IF PhaseOf(pc) # 1 THEN 0
    ELSE ((n_simulations - i) * StepsPerTrial) + 1
           - (IF pc = "for_i" THEN 0
              ELSE IF pc = "normalize" THEN 1
              ELSE IF pc = "sort" THEN 2
              ELSE IF pc = "cumsum" THEN 3
              ELSE 3 + n)

\* C16: run_monte_carlo_simulation(k) terminates after k trials of 34 ROI
\* evaluations each: the number of statements it has yet to execute is
\* never negative and every step of the loop lowers it by one, the loop
\* counters stay in range, and every iteration is an evaluation.  When the
\* function returns optimal_stopping_points has k entries and every cell
\* of rows 1..k has been stored into exactly once; no cell is ever stored
\* into twice; and a step of the loop changes no row of
\* coverage_at_systems or roi_at_systems but that of the trial it belongs
\* to.
C16_TerminatesAfterKTrials ==
    /\ [](/\ StepsLeft >= 0
          /\ i \in 0..n_simulations
          /\ Len(optimal_stopping_points) = i
          /\ pc = "for_n" => n \in 1..(N_SYSTEMS + 1)
          /\ pc = "for_i" => roi_evals = 34 * i
          /\ pc = "for_n" => roi_evals = (34 * i) + (n - 1)
          /\ \A cell \in Cells : cell_writes[cell[1]][cell[2]] <= 1)
    /\ [](pc = "report" =>
            /\ i = n_simulations
            /\ Len(optimal_stopping_points) = n_simulations
            /\ roi_evals = 34 * n_simulations
            /\ \A cell \in Cells : cell_writes[cell[1]][cell[2]] = 1)
    /\ [][/\ PhaseOf(pc) = 1 => StepsLeft' = StepsLeft - 1
          /\ \A r \in 1..n_simulations :
                r # i + 1 =>
                    /\ coverage_at_systems'[r] = coverage_at_systems[r]
                    /\ roi_at_systems'[r] = roi_at_systems[r]
                    /\ cell_writes'[r] = cell_writes[r]]_vars

\* the function has returned from two trials
C16_Witness ==
    /\ pc = "report" /\ n_simulations = 2
    /\ roi_evals = 68 /\ Len(optimal_stopping_points) = 2
    /\ coverage_at_systems[1] # coverage_at_systems[2]

\* C17: the placeholder optimal_n = 5 of line 138 is never what a trial
\* records.  The scan starts from best_roi = -inf, so its first iteration
\* stores the ROI of n = 1 as the best and 1 as the optimal count; from
\* then on best_roi is finite and optimal_n is a count the scan has
\* evaluated, whose stored ROI is best_roi and is the largest evaluated so
\* far.  Every recorded count is therefore an evaluated count holding the
\* maximum of its row.
C17_PlaceholderReplaced ==
    /\ (pc = "for_n" /\ n = 1) =>
          (best_roi.neg_inf /\ optimal_n = PLACEHOLDER_N)
    /\ (pc = "for_n" /\ n = 2) => optimal_n = 1
    /\ (pc = "for_n" /\ n >= 2) =>
          /\ ~best_roi.neg_inf
          /\ optimal_n \in 1..(n - 1)
          /\ cell_writes[i + 1][optimal_n] = 1
          /\ roi_at_systems[i + 1][optimal_n] = best_roi.v
          /\ \A m \in 1..(n - 1) : roi_at_systems[i + 1][m] <= best_roi.v
    /\ \A r \in Recorded :
          /\ cell_writes[r][optimal_stopping_points[r]] = 1
          /\ \A m \in 1..N_SYSTEMS :
                roi_at_systems[r][m]
                    <= roi_at_systems[r][optimal_stopping_points[r]]

\* the first iteration of the second trial has replaced the placeholder,
\* and the first trial recorded a count other than 5
C17_Witness ==
    /\ pc = "for_n" /\ n = 2 /\ i = 1
    /\ optimal_n = 1 /\ ~best_roi.neg_inf
    /\ best_roi.v = roi_at_systems[2][1]
    /\ optimal_stopping_points[1] # PLACEHOLDER_N

\* C18: with the market-data file missing, a run of the chart generator
\* never completes and leaves at most roi_vs_systems.png.  If the
\* directory and the first file could be written, the run aborts with
\* FileNotFoundError in the second chart, create_coverage_chart, at its
\* first call of load_data, with roi_vs_systems.png written and none of
\* the five later files, although charts 5 and 6 never call load_data and
\* chart 4 calls it without reading the tiers.
C18_MissingFileLeavesFirstChartOnly ==
    /\ ChartLoadsData(4) /\ ~ChartReadsTiers(4)
    /\ ~ChartLoadsData(5) /\ ~ChartLoadsData(6)
    /\ data_file.kind = "missing" =>
          /\ ch_pc # "done"
          /\ ch_k <= 2
          /\ Names(ch_saved) \subseteq {"roi_vs_systems.png"}
          /\ Names(ch_saved) \cap
                {"market_coverage.png", "marginal_gain.png",
                 "regional_distribution.png", "cost_breakdown.png",
                 "sensitivity_heatmap.png"} = {}
          /\ ch_k = 2 =>
                (ch_saved = <<"roi_vs_systems.png">> /\ ch_pc # "save")
          /\ (ch_pc = "aborted" /\ ch_error # "OSError") =>
                /\ ch_error = "FileNotFoundError"
                /\ ch_k = 2 /\ ch_loads = 1
                /\ ch_saved = <<"roi_vs_systems.png">>

\* the run has aborted in the second chart on the missing file
C18_Witness ==
    /\ data_file.kind = "missing"
    /\ ch_pc = "aborted" /\ ch_error = "FileNotFoundError" /\ ch_k = 2
    /\ ch_saved = <<"roi_vs_systems.png">>

====
